---- MODULE Spec2Model ----
(***************************************************************************)
(* A model of the packaging core of slap-cli (shut / shore / pliz):        *)
(*   - the inter-dependency resolver of `shut pkg install`                 *)
(*     (collect_installable_requirements),                                 *)
(*   - the file update engine behind `shut pkg update`, `pliz render` and  *)
(*     `shore new`,                                                        *)
(*   - the source metadata extractor (PythonPackageMetadata) and the       *)
(*     consistency checks built on it.                                     *)
(* One behaviour is one invocation of the command line: Init draws the     *)
(* command, its flags and the on-disk state, and one action runs the       *)
(* command's handler.                                                      *)
(***************************************************************************)
EXTENDS Integers, Sequences, FiniteSets, TLC

VARIABLES
  cmd,      \* the command line: [name, dry, inter_deps, extra, recursive]
  package,  \* the PackageModel loaded by project.load_or_exit
  project,  \* the loaded project: [monorepo, packages]
  fs,       \* the filesystem the writer works on: [dirs, files]
  before,   \* history: the filesystem when the command line was entered
  prev,     \* history: the filesystem before the latest run of the handler
  tree,     \* the package's source tree: path -> module members (or absent)
  meta,     \* the PythonPackageMetadata instance: _filename, _author, _version
  out,      \* what the command produced: result, stderr, stdout, ...
  runs      \* how many times the command handler has run

vars == <<cmd, package, project, fs, before, prev, tree, meta, out, runs>>

----------------------------------------------------------------------------
(* Bounds of the model.                                                    *)

MaxSiblings == 2   \* packages of the monorepo besides the target package
MaxReqs == 2       \* entries of the target package's requirements list
MaxRuns == 2       \* consecutive runs of `update` on one filesystem

----------------------------------------------------------------------------
(* Generic sequence helpers.                                               *)

SeqsUpTo(S, n) == UNION {[1..k -> S] : k \in 0..n}

Range(s) == {s[i] : i \in DOMAIN s}

\* Op applied to `value`, which is evaluated once
With(value, Op(_)) == CHOOSE r \in {Op(x) : x \in {value}} : TRUE

RECURSIVE Filter(_, _)
Filter(s, S) ==
  IF s = <<>> THEN <<>>
  ELSE IF Head(s) \in S THEN <<Head(s)>> \o Filter(Tail(s), S)
  ELSE Filter(Tail(s), S)

----------------------------------------------------------------------------
(* shut.model.version: Version and VersionSelector.                        *)
(* A Version is <<major, minor, patch>>; a selector is [op, v].            *)

None == [t |-> "None", v |-> <<>>]

VersionLess(a, b) ==
  \/ a[1] < b[1]
  \/ a[1] = b[1] /\ a[2] < b[2]
  \/ a[1] = b[1] /\ a[2] = b[2] /\ a[3] < b[3]

VersionLeq(a, b) == a = b \/ VersionLess(a, b)

\* VersionSelector.matches(version): `^x.y.z` is >=x.y.z,<(x+1).0.0 ;
\* `>=x.y.z` is a lower bound; `*` matches every version.
matches(selector, version) ==
  CASE selector.op = "*"  -> TRUE
    [] selector.op = ">=" -> VersionLeq(selector.v, version)
    [] selector.op = "^"  -> /\ VersionLeq(selector.v, version)
                             /\ VersionLess(version, <<selector.v[1] + 1, 0, 0>>)

Versions == {<<1, 2, 0>>, <<2, 0, 0>>}
Selectors == {[op |-> "^", v |-> <<1, 0, 0>>], [op |-> ">=", v |-> <<2, 0, 0>>]}
AnySelector == [op |-> "*", v |-> <<0, 0, 0>>]

----------------------------------------------------------------------------
(* shut.model.requirements: Requirement, VendoredRequirement,              *)
(* RequirementsList.  Every entry has the same shape; `kind` tells a       *)
(* registry requirement from a vendored one.                               *)

Requirement(name, selector) ==
  [kind |-> "Requirement", name |-> name, selector |-> selector,
   type |-> "-", location |-> <<>>]

VendoredRequirement(type, location) ==
  [kind |-> "VendoredRequirement", name |-> "-", selector |-> AnySelector,
   type |-> type, location |-> location]

\* RequirementsList.vendored_reqs(): the vendored entries, in order.
vendored_reqs(reqs) ==
  Filter(reqs, {r \in Range(reqs) : r.kind = "VendoredRequirement"})

----------------------------------------------------------------------------
(* shut.model: PackageModel (name, version, directory and the fields of    *)
(* PackageData the commands read) and the loaded project.                  *)

Author(name, email) == [t |-> "Author", v |-> <<name, email>>]

PackageModel(name, version, dirname, requirements, test_requirements) ==
  [name |-> name, version |-> version, directory |-> <<"repo", dirname>>,
   requirements |-> requirements, test_requirements |-> test_requirements,
   author |-> Author("alice", "a@x"), license |-> "MIT", url |-> "http://x",
   modulename |-> <<"pkg">>, source_directory |-> <<"src">>]

\* the references among `reqs`, in order
RECURSIVE References(_, _, _)
References(monorepo, pkg, reqs) ==
  IF reqs = <<>> THEN <<>>
  ELSE LET r == Head(reqs) IN
       IF /\ r.kind = "Requirement"
          /\ r.name \in monorepo.members
          /\ r.name # pkg.name
       THEN <<[package_name |-> r.name, version_selector |-> r.selector]>>
              \o References(monorepo, pkg, Tail(reqs))
       ELSE References(monorepo, pkg, Tail(reqs))

\* MonorepoModel.get_inter_dependencies_for(package): one reference
\* [package_name, version_selector] for every requirement of the package
\* that names another package of the monorepo; a self-reference is ignored.
get_inter_dependencies_for(monorepo, pkg) ==
  References(monorepo, pkg, pkg.requirements)

----------------------------------------------------------------------------
(* shut.commands.pkg.install                                               *)

NoExc == [type |-> "-", arg |-> "-"]
KeyError(key) == [type |-> "KeyError", arg |-> key]

\* install.py:52  {p.name: p for p in project.packages}: a later package
\* replaces an earlier one of the same name.
project_packages(packages) ==
  [n \in {packages[i].name : i \in DOMAIN packages} |->
     LET last == CHOOSE i \in DOMAIN packages :
                   /\ packages[i].name = n
                   /\ \A j \in DOMAIN packages : packages[j].name = n => j <= i
     IN packages[last]]

\* install.py:56-58  the note printed to stderr; the format arguments are
\* dep.name, ref.version_selector and dep.version.
SkipNote_SelectorVersion(dep, ref) ==
  [names |-> {dep.name}, selector |-> ref.version_selector,
   version |-> ref.version_selector.v]

SkipNote(dep, ref) ==
  [names |-> {dep.name}, selector |-> ref.version_selector,
   version |-> dep.version]

\* install.py:60  reqs.insert(0, VendoredRequirement(Path, dep.get_directory()))
InsertSibling_Append(reqs, dep) ==
  Append(reqs, VendoredRequirement("Path", dep.directory))

InsertSibling(reqs, dep) ==
  <<VendoredRequirement("Path", dep.directory)>> \o reqs

\* install.py:54-60  the body of the loop for one reference; acc is
\* [reqs, stderr, exc, examined].
ResolveRef_SkipUnknown(ref, index, acc) ==
  IF ref.package_name \notin DOMAIN index
  THEN [acc EXCEPT !.examined = @ + 1]
  ELSE LET dep == index[ref.package_name] IN
       IF ~ matches(ref.version_selector, dep.version)
       THEN [acc EXCEPT !.examined = @ + 1,
                        !.stderr = Append(@, SkipNote(dep, ref))]
       ELSE [acc EXCEPT !.examined = @ + 1,
                        !.reqs = InsertSibling(@, dep)]

ResolveRef(ref, index, acc) ==
  IF ref.package_name \notin DOMAIN index
  THEN [acc EXCEPT !.examined = @ + 1, !.exc = KeyError(ref.package_name)]
  ELSE LET dep == index[ref.package_name] IN
       IF ~ matches(ref.version_selector, dep.version)
       THEN [acc EXCEPT !.examined = @ + 1,
                        !.stderr = Append(@, SkipNote(dep, ref))]
       ELSE [acc EXCEPT !.examined = @ + 1,
                        !.reqs = InsertSibling(@, dep)]

\* install.py:53  for ref in ...: an exception leaves the loop.
RECURSIVE ResolveLoop(_, _, _)
ResolveLoop(refs, index, acc) ==
  IF refs = <<>> \/ acc.exc # NoExc THEN acc
  ELSE ResolveLoop(Tail(refs), index, ResolveRef(Head(refs), index, acc))

\* install.py:38-62 with `reqs = package.test_requirements` in place of
\* lines 37 and 42-43: the list being built is the package's own list of
\* test requirements, which holds the result when the function returns.
collect_installable_requirements_InPlace(pkg, inter_deps, extra, proj) ==
  LET r0 == IF "test" \in extra THEN pkg.test_requirements ELSE <<>>
      r1 == Append(r0, VendoredRequirement("Path", pkg.directory))
      r2 == r1 \o vendored_reqs(pkg.requirements)
      acc == [reqs |-> r2, stderr |-> <<>>, exc |-> NoExc, examined |-> 0]
  IN With(IF proj.monorepo.present /\ inter_deps
          THEN ResolveLoop(get_inter_dependencies_for(proj.monorepo, pkg),
                           project_packages(proj.packages), acc)
          ELSE acc,
          LAMBDA res :
            res @@ [package |-> IF "test" \in extra
                                THEN [pkg EXCEPT !.test_requirements = res.reqs]
                                ELSE pkg,
                    project |-> proj])

\* install.py:38-62: [reqs, stderr, exc, examined] and the package and the
\* project as the call leaves them.  reqs is a list of its own (line 37);
\* lines 43, 45, 46 and 60 extend that list, and line 52 builds a new
\* dictionary, so the objects passed in are not assigned to.
collect_installable_requirements(pkg, inter_deps, extra, proj) ==
  LET r0 == IF "test" \in extra THEN pkg.test_requirements ELSE <<>>
      r1 == Append(r0, VendoredRequirement("Path", pkg.directory))
      r2 == r1 \o vendored_reqs(pkg.requirements)
      acc == [reqs |-> r2, stderr |-> <<>>, exc |-> NoExc, examined |-> 0]
  IN With(IF proj.monorepo.present /\ inter_deps
          THEN ResolveLoop(get_inter_dependencies_for(proj.monorepo, pkg),
                           project_packages(proj.packages), acc)
          ELSE acc,
          LAMBDA res : res @@ [package |-> pkg, project |-> proj])

\* shut.model.requirements: RequirementsList.to_pip_args(directory, develop):
\* a Path requirement is an editable install under develop, a plain path
\* otherwise; a registry requirement is its name and selector.
RECURSIVE to_pip_args(_, _)
to_pip_args(reqs, develop) ==
  IF reqs = <<>> THEN <<>>
  ELSE LET r == Head(reqs)
           args == IF r.kind = "VendoredRequirement"
                   THEN IF develop /\ r.type = "Path"
                        THEN <<"-e", r.location>> ELSE <<r.location>>
                   ELSE <<<<r.name, r.selector>>>>
       IN args \o to_pip_args(Tail(reqs), develop)

\* install.py:65-89  run_install with pip, upgrade, quiet and pip_args at
\* their defaults: the command is printed under --dry and executed otherwise.
run_install(reqs, develop, dry) ==
  LET command == <<"python", "-m", "pip", "install">> \o to_pip_args(reqs, develop)
  IN [command |-> command, printed |-> dry, executed |-> ~ dry]

----------------------------------------------------------------------------
(* The filesystem and the file engine.                                     *)
(* A path is a sequence of names; a file's content is a record, Absent     *)
(* when the file does not exist.                                           *)

Absent == [text |-> "absent", name |-> "-", version |-> <<0, 0, 0>>]
Edited == [text |-> "edited by hand", name |-> "-", version |-> <<0, 0, 0>>]

dirname(path) == SubSeq(path, 1, Len(path) - 1)

\* every directory above `path`, the path's own directory included
Ancestors(path) == {SubSeq(path, 1, k) : k \in 1..(Len(path) - 1)}

\* A FileToRender: the target path and the content its render function
\* produces from the model.
FileToRender(name, text, pkg) ==
  [name |-> name,
   content |-> [text |-> text, name |-> pkg.name, version |-> pkg.version]]

\* shut.update.get_files(package): the files generated from the package
\* configuration, a function of the model alone.
get_files(pkg) ==
  << FileToRender(pkg.directory \o <<"setup.py">>, "setup.py", pkg),
     FileToRender(pkg.directory \o <<"MANIFEST.in">>, "MANIFEST.in", pkg) >>

\* The writer, write(file, force, dry), on st = [fs, stdout, conflicts]:
\* dry only describes the write; a differing target is kept and reported
\* as a conflict unless force; otherwise the parent directories are created
\* and the target is replaced.
write(file, force, dry, st) ==
  IF dry
  THEN [st EXCEPT !.stdout = Append(@, file.name)]
  ELSE IF /\ st.fs.files[file.name] # Absent
          /\ st.fs.files[file.name] # file.content
          /\ ~ force
  THEN [st EXCEPT !.conflicts = Append(@, file.name)]
  ELSE [st EXCEPT !.fs.dirs = @ \cup Ancestors(file.name),
                  !.fs.files[file.name] = file.content]

\* shut.commands.commons.new.write_files(files, directory, force, dry)
RECURSIVE write_files(_, _, _, _)
write_files(files, force, dry, st) ==
  IF files = <<>> THEN st
  ELSE write_files(Tail(files), force, dry, write(Head(files), force, dry, st))

\* shore.core.plugins.write_to_disk(file): the writer without a force or
\* dry request.
write_to_disk(file, st) == write(file, FALSE, FALSE, st)

\* update.py:31-33  update_package(package, dry=False)
update_package_Append(pkg, dry, st) ==
  LET Appended(f) ==
        [f EXCEPT !.content.text =
           IF st.fs.files[f.name] = Absent THEN @ ELSE "appended"]
      files == get_files(pkg)
  IN write_files([i \in DOMAIN files |-> Appended(files[i])], TRUE, dry, st)

update_package_NoForce(pkg, dry, st) ==
  write_files(get_files(pkg), FALSE, dry, st)

update_package(pkg, dry, st) ==
  write_files(get_files(pkg), TRUE, dry, st)

\* update.py:36-44  the `update` command: update_package is called without
\* the dry flag, so its default (False) applies.
update(dry, pkg, st) == update_package(pkg, FALSE, st)

----------------------------------------------------------------------------
(* Python values.  A value is [t, v]: its type and, for a string, the      *)
(* sequence of its pieces; None and the empty string are falsy.            *)

Str(pieces) == [t |-> "str", v |-> pieces]

Truthy(value) == value.t # "None" /\ value.v # <<>>

\* str(value): an Author prints as `name <email>`, None as `None`.
str(value) ==
  CASE value.t = "str"    -> value
    [] value.t = "None"   -> Str(<<"None">>)
    [] value.t = "Author" -> Str(<<value.v[1], " <", value.v[2], ">">>)

ValueError(msg) == [type |-> "ValueError", arg |-> msg]

----------------------------------------------------------------------------
(* The source tree and the module members of an entry file.                *)
(* load_module_members(filename) maps each top-level assignment to the     *)
(* syntax tree of its right-hand side: a literal, or another expression.   *)

NoMember == [t |-> "absent", v |-> <<>>]
Literal(pieces) == [t |-> "literal", v |-> pieces]
NonLiteral == [t |-> "nonliteral", v |-> <<"get_version()">>]

NoFile == [exists |-> FALSE, version |-> NoMember, author |-> NoMember]
Module(version, author) == [exists |-> TRUE, version |-> version, author |-> author]

isfile(t, path) == path \in DOMAIN t /\ t[path].exists

load_module_members(t, filename) == t[filename.v]

\* ast.literal_eval(node): the value of a literal; ValueError otherwise.
literal_eval(node) ==
  IF node.t = "literal"
  THEN [value |-> Str(node.v), exc |-> NoExc]
  ELSE [value |-> None, exc |-> ValueError("malformed node or string")]

----------------------------------------------------------------------------
(* shut.model.package: PythonPackageMetadata                               *)

DotPy == [pkg |-> "pkg.py", ns |-> "ns.py"]

\* package.py:145-150  __init__
PythonPackageMetadata(source_directory, modulename) ==
  [source_directory |-> source_directory, modulename |-> modulename,
   _filename |-> None, _author |-> None, _version |-> None]

\* package.py:162-168  the candidate entry files, in search order
choices_InitFirst(parts) ==
  LET last == parts[Len(parts)] IN
  << <<DotPy[last]>>, <<last, "__init__.py">>, <<last, "__version__.py">> >>

choices(parts) ==
  LET last == parts[Len(parts)] IN
  << <<DotPy[last]>>, <<last, "__version__.py">>, <<last, "__init__.py">> >>

\* package.py:169-176  the first candidate that is a file, or ValueError
RECURSIVE FirstFile(_, _, _, _)
FirstFile(self, t, prefix, cs) ==
  IF cs = <<>>
  THEN [value |-> None, exc |-> ValueError(self.modulename)]
  ELSE LET filename == self.source_directory \o prefix \o Head(cs) IN
       IF isfile(t, filename)
       THEN [value |-> Str(filename), exc |-> NoExc]
       ELSE FirstFile(self, t, prefix, Tail(cs))

\* package.py:152-176  the filename property: [self, value, exc]
filename(self, t) ==
  IF Truthy(self._filename)
  THEN [self |-> self, value |-> self._filename, exc |-> NoExc]
  ELSE LET parts == self.modulename
           prefix == SubSeq(parts, 1, Len(parts) - 1)
       IN With(FirstFile(self, t, prefix, choices(parts)),
               LAMBDA found :
                 [self |-> IF found.exc = NoExc
                           THEN [self EXCEPT !._filename = found.value] ELSE self,
                  value |-> found.value, exc |-> found.exc])

\* package.py:209-213 and 215-219  try: literal_eval(...) except ValueError:
\* the sentinel
EvalMember_Pass(node) ==
  LET r == literal_eval(node) IN
  IF r.exc = NoExc THEN r.value ELSE None

EvalMember(node) ==
  LET r == literal_eval(node) IN
  IF r.exc = NoExc THEN r.value ELSE Str(<<"<Non-literal expression>">>)

\* package.py:203-222  _load_metadata: [self, exc, loads]
_load_metadata(self, t) ==
  With(filename(self, t), LAMBDA f :
    IF f.exc # NoExc THEN [self |-> f.self, exc |-> f.exc, loads |-> 0]
    ELSE LET members == load_module_members(t, f.value)
             version_ == IF members.version # NoMember
                         THEN EvalMember(members.version) ELSE None
             author_ == IF members.author # NoMember
                        THEN EvalMember(members.author) ELSE None
         IN [self |-> [f.self EXCEPT !._author = author_, !._version = version_],
             exc |-> NoExc, loads |-> 1])

\* package.py:191-195  the author property: [self, value, exc, loads]
author(self, t) ==
  IF ~ Truthy(self._author)
  THEN With(_load_metadata(self, t), LAMBDA l :
         [self |-> l.self, exc |-> l.exc, loads |-> l.loads,
          value |-> IF l.exc = NoExc THEN l.self._author ELSE None])
  ELSE [self |-> self, exc |-> NoExc, loads |-> 0, value |-> self._author]

\* package.py:197-201  the version property
version(self, t) ==
  IF ~ Truthy(self._version)
  THEN With(_load_metadata(self, t), LAMBDA l :
         [self |-> l.self, exc |-> l.exc, loads |-> l.loads,
          value |-> IF l.exc = NoExc THEN l.self._version ELSE None])
  ELSE [self |-> self, exc |-> NoExc, loads |-> 0, value |-> self._version]

\* package.py:103-112  PackageModel.get_python_package_metadata
get_python_package_metadata(pkg) ==
  PythonPackageMetadata(pkg.directory \o pkg.source_directory, pkg.modulename)

----------------------------------------------------------------------------
(* shut.model.package: the README and LICENSE files of a package.          *)
(* A file name is a string; NamePieces gives the pieces it is written      *)
(* with, by which names are ordered and tested for a prefix.  A path is    *)
(* the sequence of its components, the first being "/" if it is absolute.  *)

Names ==
  {"LICENSE", "LICENSE.apache", "LICENSE.md", "LICENSE.txt",
   "README", "README.adoc", "README.md", "README.rst", "package.yaml"}

NamePieces(name) ==
  CASE name = "LICENSE"        -> <<"LICENSE">>
    [] name = "LICENSE.apache" -> <<"LICENSE", ".", "apache">>
    [] name = "LICENSE.md"     -> <<"LICENSE", ".", "md">>
    [] name = "LICENSE.txt"    -> <<"LICENSE", ".", "txt">>
    [] name = "README"         -> <<"README">>
    [] name = "README.adoc"    -> <<"README", ".", "adoc">>
    [] name = "README.md"      -> <<"README", ".", "md">>
    [] name = "README.rst"     -> <<"README", ".", "rst">>
    [] name = "package.yaml"   -> <<"package", ".", "yaml">>

\* the order of the pieces as strings
PieceRank(piece) ==
  CASE piece = "."       -> 0
    [] piece = "LICENSE" -> 1
    [] piece = "README"  -> 2
    [] piece = "adoc"    -> 3
    [] piece = "apache"  -> 4
    [] piece = "md"      -> 5
    [] piece = "package" -> 6
    [] piece = "rst"     -> 7
    [] piece = "txt"     -> 8
    [] piece = "yaml"    -> 9

\* a < b for strings: the first differing piece decides, a proper prefix
\* is the smaller
RECURSIVE PiecesLess(_, _)
PiecesLess(a, b) ==
  IF a = <<>> THEN b # <<>>
  ELSE IF b = <<>> THEN FALSE
  ELSE IF Head(a) = Head(b) THEN PiecesLess(Tail(a), Tail(b))
  ELSE PieceRank(Head(a)) < PieceRank(Head(b))

NameLess(a, b) == PiecesLess(NamePieces(a), NamePieces(b))

\* sorted(names)
RECURSIVE sorted(_)
sorted(names) ==
  IF names = {} THEN <<>>
  ELSE LET least == CHOOSE m \in names : \A n \in names : n = m \/ NameLess(m, n)
       IN <<least>> \o sorted(names \ {least})

\* name.startswith(prefix), the prefix given by its pieces
startswith(name, prefix) ==
  /\ Len(NamePieces(name)) >= Len(prefix)
  /\ SubSeq(NamePieces(name), 1, Len(prefix)) = prefix

\* os.listdir(directory)
listdir(f, directory) ==
  {n \in Names : /\ directory \o <<n>> \in DOMAIN f.files
                 /\ f.files[directory \o <<n>>] # Absent}

isabs(path) == path # <<>> /\ path[1] = "/"

AttributeError(attr) == [type |-> "AttributeError", arg |-> attr]

\* package.py:44-48  the loop over the sorted names: it ends at the first
\* name of the preferred list (break) or when the names are used up;
\* found collects the names with the prefix met until then.
RECURSIVE ScanNames(_, _, _, _)
ScanNames(names, prefix, preferred, found) ==
  IF names = <<>> THEN [broke |-> FALSE, name |-> "-", found |-> found]
  ELSE IF Head(names) \in Range(preferred)
  THEN [broke |-> TRUE, name |-> Head(names), found |-> found]
  ELSE ScanNames(Tail(names), prefix, preferred,
                 IF startswith(Head(names), prefix)
                 THEN Append(found, Head(names)) ELSE found)

\* the first name of the preferred list that the directory holds
RECURSIVE FirstPreferred(_, _)
FirstPreferred(preferred, listed) ==
  IF preferred = <<>> THEN "-"
  ELSE IF Head(preferred) \in listed THEN Head(preferred)
  ELSE FirstPreferred(Tail(preferred), listed)

\* package.py:37-54 with the preferred list searched in its own order
_get_file_in_directory_ByRank(f, directory, prefix, preferred) ==
  With(ScanNames(sorted(listdir(f, directory)), prefix, preferred, <<>>),
       LAMBDA r :
         IF ~ r.broke
         THEN IF r.found # <<>> THEN Str(<<r.found[1]>>) ELSE None
         ELSE Str(directory \o <<FirstPreferred(preferred, listdir(f, directory))>>))

\* package.py:37-54  _get_file_in_directory: os.path.join(directory, name)
\* after a break (line 54), else the first collected name as it is
\* (line 51), else None
_get_file_in_directory(f, directory, prefix, preferred) ==
  With(ScanNames(sorted(listdir(f, directory)), prefix, preferred, <<>>),
       LAMBDA r :
         IF ~ r.broke
         THEN IF r.found # <<>> THEN Str(<<r.found[1]>>) ELSE None
         ELSE Str(directory \o <<r.name>>))

ReadmePreferred == <<"README.md", "README.rst", "README.txt", "README">>
LicensePreferred == <<"LICENSE", "LICENSE.txt", "LICENSE.rst", "LICENSE.md">>

\* package.py:114-127  PackageModel.get_readme: [value, exc].  Line 122
\* reads self.readme; PackageModel (lines 96-101) has the fields data,
\* install, linter and release, so the attribute lookup fails.
get_readme(self, f) ==
  LET directory == dirname(self.filename) IN
  IF Truthy(self.data.readme)
  THEN [value |-> None, exc |-> AttributeError("readme")]
  ELSE [value |-> _get_file_in_directory(f, directory, <<"README", ".">>,
                                         ReadmePreferred),
        exc |-> NoExc]

\* package.py:129-137  PackageModel.get_license
get_license(self, f) ==
  [value |-> _get_file_in_directory(f, dirname(self.filename), <<"LICENSE", ".">>,
                                    LicensePreferred),
   exc |-> NoExc]

----------------------------------------------------------------------------
(* pliz.commands.render: the package warnings                              *)

\* Package.load_entry_file_data(): the author and version found in the
\* package's entry file.
load_entry_file_data(pkg, t) ==
  With(author(get_python_package_metadata(pkg), t), LAMBDA a :
    With(version(a.self, t), LAMBDA v :
      [author |-> v.self._author, version |-> v.self._version,
       exc |-> IF a.exc # NoExc THEN a.exc ELSE v.exc]))

Inconsistent(field, found, declared) ==
  [kind |-> "Inconsistent", field |-> field, found |-> found, declared |-> declared]

Missing(field) ==
  [kind |-> "missing", field |-> field, found |-> None, declared |-> None]

\* render.py:41-48  _get_package_consistency_checks: [warnings, exc]
_get_package_consistency_checks_NoStr(pkg, t) ==
  With(load_entry_file_data(pkg, t), LAMBDA data :
    IF data.exc # NoExc THEN [warnings |-> <<>>, exc |-> data.exc]
    ELSE [exc |-> NoExc,
          warnings |->
            (IF data.author # pkg.package.author
             THEN <<Inconsistent("author", data.author, str(pkg.package.author))>>
             ELSE <<>>)
            \o
            (IF data.version # pkg.package.version
             THEN <<Inconsistent("version", data.version, pkg.package.version)>>
             ELSE <<>>)])

_get_package_consistency_checks(pkg, t) ==
  With(load_entry_file_data(pkg, t), LAMBDA data :
    IF data.exc # NoExc THEN [warnings |-> <<>>, exc |-> data.exc]
    ELSE [exc |-> NoExc,
          warnings |->
            (IF data.author # str(pkg.package.author)
             THEN <<Inconsistent("author", data.author, str(pkg.package.author))>>
             ELSE <<>>)
            \o
            (IF data.version # pkg.package.version
             THEN <<Inconsistent("version", data.version, pkg.package.version)>>
             ELSE <<>>)])

\* render.py:30-38 with the consistency checks run before anything is
\* yielded: a failure of the checks leaves no warning behind.
_get_package_warnings_ChecksFirst(pkg, t) ==
  With(_get_package_consistency_checks(pkg, t), LAMBDA checks :
    [warnings |->
       IF checks.exc # NoExc THEN <<>>
       ELSE (IF ~ Truthy(pkg.package.author) THEN <<Missing("author")>> ELSE <<>>)
            \o (IF ~ Truthy(pkg.package.license) THEN <<Missing("license")>> ELSE <<>>)
            \o (IF ~ Truthy(pkg.package.url) THEN <<Missing("url")>> ELSE <<>>)
            \o checks.warnings,
     exc |-> checks.exc])

\* render.py:30-38  _get_package_warnings: the warnings yielded, and the
\* exception that ends the generator if the entry file cannot be read.
_get_package_warnings(pkg, t) ==
  With(_get_package_consistency_checks(pkg, t), LAMBDA checks :
    [warnings |->
       (IF ~ Truthy(pkg.package.author) THEN <<Missing("author")>> ELSE <<>>)
       \o (IF ~ Truthy(pkg.package.license) THEN <<Missing("license")>> ELSE <<>>)
       \o (IF ~ Truthy(pkg.package.url) THEN <<Missing("url")>> ELSE <<>>)
       \o checks.warnings,
     exc |-> checks.exc])

----------------------------------------------------------------------------
(* pliz.commands.render: RenderCommand, and shore.__main__: _new           *)

\* Renderer.get_files_to_render(context): the files of every package of the
\* context and, for a monorepo context, the monorepo's own file.
RECURSIVE PackageFiles(_)
PackageFiles(packages) ==
  IF packages = <<>> THEN <<>>
  ELSE get_files(Head(packages)) \o PackageFiles(Tail(packages))

get_files_to_render(context) ==
  (IF context.monorepo.present
   THEN <<FileToRender(<<"repo", "bundle.cfg">>, "bundle.cfg",
                       [name |-> context.monorepo.name, version |-> <<0, 0, 0>>])>>
   ELSE <<>>)
  \o PackageFiles(context.packages)

NoMonorepo == [present |-> FALSE, name |-> "-", members |-> {}]

\* render.py:114-119  the PluginContext of the command
PluginContext(monorepo, pkg, has_package, packages, recursive) ==
  IF has_package
  THEN [monorepo |-> NoMonorepo, packages |-> <<pkg>>]
  ELSE [monorepo |-> monorepo,
        packages |-> IF recursive THEN packages ELSE <<>>]

NewNames == {<<"pkg">>, <<"ns", "pkg">>}

\* '.'.join(parts)
Dotted(parts) == IF parts = <<"pkg">> THEN "pkg" ELSE "ns.pkg"

\* __main__.py:110-129  _get_files of `new`: the template files, then one
\* namespace __init__.py per parent of the dotted name.
NewFiles(name, directory) ==
  LET model == [name |-> Dotted(name), version |-> <<0, 0, 0>>]
      Namespace(k) ==
        FileToRender(<<directory, "src">> \o SubSeq(name, 1, k) \o <<"__init__.py">>,
                     "namespace", model)
  IN << FileToRender(<<directory, "package.yaml">>, "package.yaml", model),
        FileToRender(<<directory, "src">> \o name \o <<"__init__.py">>,
                     "__init__.py", model) >>
     \o [k \in 1..(Len(name) - 1) |-> Namespace(k)]

----------------------------------------------------------------------------
(* The state of one invocation.                                            *)

Out0 ==
  [pc |-> "start", value |-> None, exc |-> NoExc, stderr |-> <<>>,
   stdout |-> <<>>, conflicts |-> <<>>, pending |-> <<>>, enumerated |-> 0,
   examined |-> 0, loads |-> 0, warnings |-> <<>>, history |-> <<>>,
   pip |-> [command |-> <<>>, printed |-> FALSE, executed |-> FALSE]]

Cmd(name) ==
  [name |-> name, dry |-> FALSE, inter_deps |-> TRUE, extra |-> {""},
   develop |-> TRUE, recursive |-> FALSE, has_package |-> TRUE,
   args_name |-> <<"pkg">>, directory |-> "pkg"]

NoFS == [dirs |-> {}, files |-> <<>>]
NoTree == <<>>
NoMeta == PythonPackageMetadata(<<>>, <<"pkg">>)
NoProject == [monorepo |-> NoMonorepo, packages |-> <<>>]

A == PackageModel("A", <<1, 0, 0>>, "a", <<>>, <<>>)

\* a filesystem over `paths` in which the files of `present` exist with the
\* given contents, below directories that exist
FileSystem(paths, contents, always) ==
  [dirs |-> always \cup UNION {Ancestors(q) : q \in {q \in paths : contents[q] # Absent}},
   files |-> contents]

----------------------------------------------------------------------------
(* Initial states: one per command line and on-disk state.                 *)

DirNames == <<"p1", "p2", "p3", "p4">>

Monorepo == [present |-> TRUE, name |-> "mono", members |-> {"A", "B", "C"}]

SiblingLists ==
  {[i \in DOMAIN l |-> PackageModel(l[i][1], l[i][2], DirNames[i], <<>>, <<>>)] :
     l \in SeqsUpTo({"B", "C"} \X Versions, MaxSiblings)}

RequirementChoices ==
  {Requirement(n, sel) : n \in {"B"}, sel \in Selectors}
    \cup {Requirement("C", [op |-> "^", v |-> <<1, 0, 0>>]),
          Requirement("requests", AnySelector),
          VendoredRequirement("Git", <<"vendor", "x">>)}

InitInstall ==
  /\ \E i \in BOOLEAN, t \in BOOLEAN, d \in BOOLEAN :
       cmd = [Cmd("install") EXCEPT !.inter_deps = i, !.dry = d,
                !.extra = IF t THEN {"test"} ELSE {""}]
  /\ \E reqs \in SeqsUpTo(RequirementChoices, MaxReqs) :
       package = PackageModel("A", <<1, 0, 0>>, "a", reqs,
                              <<Requirement("pytest", AnySelector)>>)
  /\ \/ project = [monorepo |-> NoMonorepo, packages |-> <<package>>]
     \/ \E sibs \in SiblingLists :
          project = [monorepo |-> Monorepo, packages |-> <<package>> \o sibs]
  /\ fs = NoFS /\ tree = NoTree /\ meta = NoMeta

Contents(file, others) == {Absent, Edited, file.content} \cup others

InitUpdate ==
  /\ \E d \in BOOLEAN : cmd = [Cmd("update") EXCEPT !.dry = d]
  /\ \E v \in Versions : package = [A EXCEPT !.version = v]
  /\ project = [monorepo |-> NoMonorepo, packages |-> <<package>>]
  /\ LET files == get_files(package)
         paths == {files[i].name : i \in DOMAIN files}
         File(q) == CHOOSE f \in Range(files) : f.name = q
         Stale(q) == {[File(q).content EXCEPT !.version = w] : w \in Versions}
     IN \E c \in [paths -> {Absent, Edited} \cup UNION {Stale(q) : q \in paths}] :
          /\ \A q \in paths : c[q] \in Contents(File(q), Stale(q))
          /\ fs = FileSystem(paths, c, {<<"repo">>, package.directory})
  /\ tree = NoTree /\ meta = NoMeta

InitRender ==
  /\ \E d \in BOOLEAN, r \in BOOLEAN, h \in BOOLEAN :
       cmd = [Cmd("render") EXCEPT !.dry = d, !.recursive = r, !.has_package = h]
  /\ package = A
  /\ project = [monorepo |-> Monorepo, packages |-> <<package>>]
  /\ LET files == get_files_to_render([monorepo |-> Monorepo, packages |-> <<package>>])
         paths == {files[i].name : i \in DOMAIN files}
         File(q) == CHOOSE f \in Range(files) : f.name = q
     IN \E c \in [paths -> {Absent, Edited} \cup {f.content : f \in Range(files)}] :
          /\ \A q \in paths : c[q] \in Contents(File(q), {})
          /\ fs = FileSystem(paths, c, {<<"repo">>, package.directory})
  /\ tree = NoTree /\ meta = NoMeta

InitNew ==
  /\ \E n \in NewNames :
       cmd = [Cmd("new") EXCEPT !.args_name = n, !.directory = Dotted(n)]
  /\ package = A /\ project = NoProject
  /\ LET files == NewFiles(cmd.args_name, cmd.directory)
         paths == {files[i].name : i \in DOMAIN files}
         File(q) == CHOOSE f \in Range(files) : f.name = q
     IN \E c \in [paths -> {Absent, Edited} \cup {f.content : f \in Range(files)}],
           always \in {{}, {<<cmd.directory>>}} :
          /\ \A q \in paths : c[q] \in Contents(File(q), {})
          /\ fs = FileSystem(paths, c, always)
  /\ tree = NoTree /\ meta = NoMeta

\* the members an entry file may define
VersionNodes == {NoMember, Literal(<<"1.0.0">>), Literal(<<"1.0.1">>), NonLiteral}
AuthorNodes ==
  {NoMember, Literal(<<"alice", " <", "a@x", ">">>), Literal(<<"bob">>), NonLiteral}
Modules == {Module(v, a) : v \in VersionNodes, a \in AuthorNodes}
Decoy == Module(Literal(<<"9.9.9">>), Literal(<<"decoy">>))

ModuleNames == {<<"pkg">>, <<"ns", "pkg">>}

\* the entry file candidates of a module below the source directory
Candidates(source_directory, parts) ==
  LET prefix == SubSeq(parts, 1, Len(parts) - 1)
      last == parts[Len(parts)]
  IN {source_directory \o prefix \o c :
        c \in {<<DotPy[last]>>, <<last, "__version__.py">>, <<last, "__init__.py">>}}

\* source trees: any subset of the module's candidates exists; one of the
\* existing files holds any members, the others hold the decoy's.
Trees(source_directory, parts) ==
  LET mine == Candidates(source_directory, parts)
      all == UNION {Candidates(source_directory, m) : m \in ModuleNames}
  IN {[q \in all |-> IF q = main THEN m
                     ELSE IF q \in E THEN Decoy ELSE NoFile] :
        E \in SUBSET mine, main \in mine, m \in Modules}
     \cup {[q \in all |-> NoFile]}

InitMetadata ==
  /\ cmd = Cmd("metadata")
  /\ \E m \in ModuleNames : package = [A EXCEPT !.modulename = m]
  /\ project = NoProject /\ fs = NoFS
  /\ meta = get_python_package_metadata(package)
  /\ \E t \in Trees(meta.source_directory, meta.modulename) :
       /\ tree = t

\* the package of pliz: its `package` section and where its sources are
PlizPackage(a, v, l, u) ==
  [package |-> [author |-> a, version |-> v, license |-> l, url |-> u],
   directory |-> <<"repo", "a">>, source_directory |-> <<"src">>,
   modulename |-> <<"pkg">>]

InitCheck ==
  /\ cmd = Cmd("check")
  /\ \E a \in {None, Author("alice", "a@x")},
        v \in {Str(<<"1.0.0">>), Str(<<"1.0.1">>)},
        l \in {None, Str(<<>>), Str(<<"MIT">>)}, u \in {None, Str(<<"http://x">>)} :
       package = PlizPackage(a, v, l, u)
  /\ project = NoProject /\ fs = NoFS /\ meta = NoMeta
  /\ tree \in Trees(package.directory \o package.source_directory, package.modulename)

\* a package with its configuration file in /repo/a; the directory holds
\* any of the names
InitFiles ==
  /\ cmd = Cmd("files")
  /\ \E r \in {None, Str(<<"docs", "README.md">>)} :
       package = [filename |-> <<"/", "repo", "a", "package.yaml">>,
                  data |-> [name |-> "A", readme |-> r]]
  /\ project = NoProject /\ tree = NoTree /\ meta = NoMeta
  /\ \E listed \in SUBSET (Names \ {"package.yaml"}) :
       fs = [dirs |-> {<<"/">>, <<"/", "repo">>, <<"/", "repo", "a">>},
             files |-> [q \in {<<"/", "repo", "a", n>> : n \in Names} |->
                          IF q[4] \in listed \cup {"package.yaml"}
                          THEN Edited ELSE Absent]]

Started == before = fs /\ prev = fs /\ out = Out0 /\ runs = 0

Init ==
  \/ InitInstall /\ Started
  \/ InitUpdate /\ Started
  \/ InitRender /\ Started
  \/ InitNew /\ Started
  \/ InitMetadata /\ Started
  \/ InitCheck /\ Started
  \/ InitFiles /\ Started

----------------------------------------------------------------------------
(* Actions: the command handlers.                                          *)

MaxAccess == 3     \* property accesses on one PythonPackageMetadata

St == [fs |-> fs, stdout |-> out.stdout, conflicts |-> out.conflicts]

\* install.py:110-114  the `install` command; it may be run again on the
\* project it leaves behind.  history keeps, for every run, the package and
\* the project it was given and what it returned.
Install ==
  /\ cmd.name = "install" /\ runs < MaxRuns
  /\ LET r == collect_installable_requirements(package, cmd.inter_deps,
                                               cmd.extra, project)
         run == [package |-> package, project |-> project, reqs |-> r.reqs,
                 stderr |-> r.stderr, exc |-> r.exc]
     IN /\ out' = IF r.exc = NoExc
                  THEN [out EXCEPT !.pc = "done", !.value = r.reqs,
                                   !.stderr = r.stderr, !.examined = r.examined,
                                   !.pip = run_install(r.reqs, cmd.develop, cmd.dry),
                                   !.history = Append(@, run)]
                  ELSE [out EXCEPT !.pc = "done", !.exc = r.exc,
                                   !.stderr = r.stderr, !.examined = r.examined,
                                   !.history = Append(@, run)]
        /\ package' = r.package
        /\ project' = r.project
  /\ runs' = runs + 1
  /\ UNCHANGED <<cmd, fs, before, prev, tree, meta>>

\* update.py:36-44  the `update` command; it may be run again on the
\* filesystem it leaves behind
Update ==
  /\ cmd.name = "update" /\ runs < MaxRuns
  /\ LET st == update(cmd.dry, package, [St EXCEPT !.stdout = <<>>, !.conflicts = <<>>])
     IN /\ fs' = st.fs
        /\ out' = [out EXCEPT !.pc = "done", !.stdout = st.stdout,
                              !.conflicts = st.conflicts]
  /\ prev' = fs
  /\ runs' = runs + 1
  /\ UNCHANGED <<cmd, package, project, before, tree, meta>>

\* render.py:111-123  execute, up to the loop: the files are listed
RenderList ==
  /\ cmd.name = "render" /\ out.pc = "start"
  /\ LET context == PluginContext(project.monorepo, package, cmd.has_package,
                                  project.packages, cmd.recursive)
         files == get_files_to_render(context)
     IN out' = [out EXCEPT !.pc = "loop", !.pending = files,
                           !.enumerated = Len(files)]
  /\ runs' = runs + 1
  /\ UNCHANGED <<cmd, package, project, fs, before, prev, tree, meta>>

\* render.py:123-126  one iteration of the loop of execute
RenderFile ==
  /\ cmd.name = "render" /\ out.pc = "loop" /\ out.pending # <<>>
  /\ LET file == Head(out.pending)
         st == IF ~ cmd.dry THEN write_to_disk(file, [St EXCEPT !.stdout = Append(@, file.name)])
               ELSE [St EXCEPT !.stdout = Append(@, file.name)]
     IN /\ fs' = st.fs
        /\ out' = [out EXCEPT !.pending = Tail(@), !.stdout = st.stdout,
                              !.conflicts = st.conflicts]
  /\ UNCHANGED <<cmd, package, project, before, prev, tree, meta, runs>>

RenderDone ==
  /\ cmd.name = "render" /\ out.pc = "loop" /\ out.pending = <<>>
  /\ out' = [out EXCEPT !.pc = "done"]
  /\ UNCHANGED <<cmd, package, project, fs, before, prev, tree, meta, runs>>

\* __main__.py:110-129, 133  the for statement of _new asks the generator
\* _get_files for its next file, and the generator writes the file itself
\* before it yields it.
NewNext_Eager ==
  /\ cmd.name = "new" /\ out.pc = "start" /\ out.pending = <<>>
  /\ LET files == NewFiles(cmd.args_name, cmd.directory) IN
     /\ out.enumerated < Len(files)
     /\ fs' = write_to_disk(files[out.enumerated + 1], St).fs
     /\ out' = [out EXCEPT !.enumerated = @ + 1,
                           !.pending = <<files[out.enumerated + 1]>>]
  /\ UNCHANGED <<cmd, package, project, before, prev, tree, meta, runs>>

\* __main__.py:110-129, 133  the for statement of _new asks the generator
\* _get_files for its next file: the generator runs up to its next yield.
NewNext ==
  /\ cmd.name = "new" /\ out.pc = "start" /\ out.pending = <<>>
  /\ LET files == NewFiles(cmd.args_name, cmd.directory) IN
     /\ out.enumerated < Len(files)
     /\ out' = [out EXCEPT !.enumerated = @ + 1,
                           !.pending = <<files[out.enumerated + 1]>>]
  /\ UNCHANGED <<cmd, package, project, fs, before, prev, tree, meta, runs>>

\* __main__.py:134-135  the body of the loop of _new: the file is printed
\* and written
NewWrite ==
  /\ cmd.name = "new" /\ out.pc = "start" /\ out.pending # <<>>
  /\ LET file == Head(out.pending)
         st == write_to_disk(file, [St EXCEPT !.stdout = Append(@, file.name)])
     IN /\ fs' = st.fs
        /\ out' = [out EXCEPT !.pending = Tail(@), !.stdout = st.stdout,
                              !.conflicts = st.conflicts]
  /\ UNCHANGED <<cmd, package, project, before, prev, tree, meta, runs>>

\* __main__.py:133  the generator is exhausted
NewDone ==
  /\ cmd.name = "new" /\ out.pc = "start" /\ out.pending = <<>>
  /\ out.enumerated = Len(NewFiles(cmd.args_name, cmd.directory))
  /\ out' = [out EXCEPT !.pc = "done"]
  /\ runs' = runs + 1
  /\ UNCHANGED <<cmd, package, project, fs, before, prev, tree, meta>>

\* an access to a property of the PythonPackageMetadata instance
Access(r, what) ==
  /\ cmd.name = "metadata" /\ runs < MaxAccess
  /\ meta' = r.self
  /\ out' = [out EXCEPT !.pc = what, !.value = r.value, !.exc = r.exc,
                        !.loads = @ + r.loads]
  /\ runs' = runs + 1
  /\ UNCHANGED <<cmd, package, project, fs, before, prev, tree>>

GetFilename == Access(filename(meta, tree) @@ [loads |-> 0], "filename")

GetAuthor == Access(author(meta, tree), "author")

GetVersion == Access(version(meta, tree), "version")

\* the warnings of the package, read to the end
Check ==
  /\ cmd.name = "check" /\ out.pc = "start"
  /\ LET w == _get_package_warnings(package, tree)
     IN out' = [out EXCEPT !.pc = "done", !.warnings = w.warnings, !.exc = w.exc]
  /\ runs' = runs + 1
  /\ UNCHANGED <<cmd, package, project, fs, before, prev, tree, meta>>

\* a call of get_readme or get_license on the package
Locate(r, what) ==
  /\ cmd.name = "files" /\ runs < MaxRuns
  /\ out' = [out EXCEPT !.pc = what, !.value = r.value, !.exc = r.exc]
  /\ runs' = runs + 1
  /\ UNCHANGED <<cmd, package, project, fs, before, prev, tree, meta>>

GetReadme == Locate(get_readme(package, fs), "readme")

GetLicense == Locate(get_license(package, fs), "license")

Next ==
  \/ Install
  \/ Update
  \/ RenderList
  \/ RenderFile
  \/ RenderDone
  \/ NewNext
  \/ NewWrite
  \/ NewDone
  \/ GetFilename
  \/ GetAuthor
  \/ GetVersion
  \/ Check
  \/ GetReadme
  \/ GetLicense

Spec == Init /\ [][Next]_vars

----------------------------------------------------------------------------
(* The resolver: collect_installable_requirements.                         *)

Resolved ==
  /\ cmd.name = "install" /\ out.pc = "done"
  /\ project.monorepo.present /\ cmd.inter_deps

InstallRefs == get_inter_dependencies_for(project.monorepo, package)

\* the package a reference resolves to: the one the name index holds
Known(ref) == \E i \in DOMAIN project.packages :
                project.packages[i].name = ref.package_name
Sibling(ref) ==
  LET i == CHOOSE i \in DOMAIN project.packages :
             /\ project.packages[i].name = ref.package_name
             /\ \A j \in DOMAIN project.packages :
                  project.packages[j].name = ref.package_name => j <= i
  IN project.packages[i]

Matching(ref) ==
  Known(ref) /\ matches(ref.version_selector, Sibling(ref).version)
Mismatching(ref) ==
  Known(ref) /\ ~ matches(ref.version_selector, Sibling(ref).version)

PathOf(pkg) == VendoredRequirement("Path", pkg.directory)

IsSiblingEntry(e) ==
  \E k \in DOMAIN InstallRefs :
     Matching(InstallRefs[k]) /\ e = PathOf(Sibling(InstallRefs[k]))

\* the number of entries the list holds before the references are resolved
BaseLen ==
  (IF "test" \in cmd.extra THEN Len(package.test_requirements) ELSE 0) + 1
    + Cardinality({i \in DOMAIN package.requirements :
                     package.requirements[i].kind = "VendoredRequirement"})

\* C1: with a monorepo and inter_deps, every sibling whose version matches
\* its reference's selector is in the returned list as a Path requirement,
\* and every such entry stands before every entry that is not a sibling's
\* (test requirements, the package's own path, vendored requirements).
C1_SiblingsFirst ==
  (Resolved /\ out.exc = NoExc) =>
    /\ \A k \in DOMAIN InstallRefs :
         Matching(InstallRefs[k]) =>
           \E i \in DOMAIN out.value : out.value[i] = PathOf(Sibling(InstallRefs[k]))
    /\ \A i, j \in DOMAIN out.value :
         (IsSiblingEntry(out.value[i]) /\ ~ IsSiblingEntry(out.value[j])) => i < j
    /\ \A j \in DOMAIN out.value :
         ~ IsSiblingEntry(out.value[j]) => j > Len(out.value) - BaseLen

C1_Witness ==
  /\ Resolved /\ out.exc = NoExc /\ "test" \in cmd.extra
  /\ Len(InstallRefs) = 2
  /\ Matching(InstallRefs[1]) /\ Matching(InstallRefs[2])
  /\ Sibling(InstallRefs[1]) # Sibling(InstallRefs[2])
  /\ Len(out.value) = 4

\* the mismatching references among the first n
RECURSIVE MismatchesUpTo(_)
MismatchesUpTo(n) ==
  IF n = 0 THEN <<>>
  ELSE IF Mismatching(InstallRefs[n])
       THEN Append(MismatchesUpTo(n - 1), InstallRefs[n])
       ELSE MismatchesUpTo(n - 1)

NumMatching == Cardinality({k \in DOMAIN InstallRefs : Matching(InstallRefs[k])})

\* what C2 says of the resolver, but for the names the warning holds
SkipsMismatches ==
  LET skipped == MismatchesUpTo(out.examined) IN
  /\ (\A k \in DOMAIN InstallRefs : Known(InstallRefs[k])) =>
       /\ out.exc = NoExc
       /\ out.examined = Len(InstallRefs)
       /\ Len(out.value) = BaseLen + NumMatching
       /\ \A k \in DOMAIN InstallRefs :
            (\E i \in DOMAIN out.value : out.value[i] = PathOf(Sibling(InstallRefs[k])))
              => \E m \in DOMAIN InstallRefs :
                   /\ Matching(InstallRefs[m])
                   /\ Sibling(InstallRefs[m]) = Sibling(InstallRefs[k])
  /\ Len(out.stderr) = Len(skipped)
  /\ \A k \in DOMAIN skipped :
       /\ Sibling(skipped[k]).name \in out.stderr[k].names
       /\ out.stderr[k].selector = skipped[k].version_selector
       /\ out.stderr[k].version = Sibling(skipped[k]).version

\* C2 as stated: a mismatching reference adds no entry, resolution goes on,
\* and exactly one warning is printed for it, naming the consumer package,
\* the sibling, the selector and the sibling's present version.
C2_WarningNamesConsumer ==
  Resolved =>
    /\ SkipsMismatches
    /\ \A k \in DOMAIN out.stderr : package.name \in out.stderr[k].names

\* C2 (amended): a mismatching reference adds no entry, resolution goes on,
\* and exactly one warning is printed for it, naming the sibling, the
\* selector and the sibling's present version, and no other package.
C2_WarningNamesSibling ==
  Resolved =>
    /\ SkipsMismatches
    /\ \A k \in DOMAIN out.stderr :
         out.stderr[k].names = {Sibling(MismatchesUpTo(out.examined)[k]).name}

C2_Witness ==
  /\ Resolved /\ out.exc = NoExc
  /\ Len(InstallRefs) = 2
  /\ Mismatching(InstallRefs[1]) /\ Matching(InstallRefs[2])
  /\ Len(out.stderr) = 1
  /\ Len(out.value) = BaseLen + 1

Unknowns == {k \in DOMAIN InstallRefs : ~ Known(InstallRefs[k])}
FirstUnknown == CHOOSE k \in Unknowns : \A m \in Unknowns : k <= m

Duplicates ==
  \E i, j \in DOMAIN project.packages :
     i # j /\ project.packages[i].name = project.packages[j].name

\* C4: when two packages of the monorepo share a name, resolution ends with
\* a DuplicateNameError before any reference is examined.
C4_DuplicateNameError ==
  (Resolved /\ Duplicates) =>
    /\ out.exc.type = "DuplicateNameError"
    /\ out.examined = 0

----------------------------------------------------------------------------
(* The file engine: update, render, new.                                   *)

\* C5: under --dry, `update` and `render` write nothing: the filesystem is
\* the one the command found.
C5_DryRunWritesNothing ==
  (cmd.name \in {"update", "render"} /\ cmd.dry) => fs = before

\* the files the handler has processed since `prev`
Processed ==
  CASE cmd.name = "update" ->
         IF runs >= 1 THEN Range(get_files(package)) ELSE {}
    [] cmd.name = "new" ->
         {NewFiles(cmd.args_name, cmd.directory)[k] :
            k \in 1..(out.enumerated - Len(out.pending))}
    [] OTHER -> {}

Conflict(file) ==
  prev.files[file.name] # Absent /\ prev.files[file.name] # file.content

Count(seq, x) == Cardinality({i \in DOMAIN seq : seq[i] = x})

\* a conflicting target is kept and reported once; the other files are
\* written all the same
SkipsConflicts ==
  \A file \in Processed :
     IF Conflict(file)
     THEN /\ fs.files[file.name] = prev.files[file.name]
          /\ Count(out.conflicts, file.name) = 1
     ELSE /\ fs.files[file.name] = file.content
          /\ Count(out.conflicts, file.name) = 0

\* C6 as stated: `update` and `new` (neither has a force option) keep and
\* report a target that exists with other content, and go on with the next
\* file.
C6_NeverOverwrites ==
  cmd.name \in {"update", "new"} => SkipsConflicts

\* C6 (amended): `new` keeps and reports a target that exists with other
\* content and goes on with the next file; `update` always writes with
\* force=True and replaces every target, a file edited by hand included.
C6_UpdateForces ==
  /\ cmd.name = "new" => SkipsConflicts
  /\ cmd.name = "update" =>
       /\ out.conflicts = <<>>
       /\ \A file \in Processed : fs.files[file.name] = file.content

C6_Witness ==
  /\ cmd.name = "update" /\ runs = 1
  /\ \E file \in Processed :
       /\ prev.files[file.name] = Edited
       /\ fs.files[file.name] = file.content

C6_WitnessNew ==
  /\ cmd.name = "new" /\ out.pc = "done"
  /\ \E f, g \in Processed :
       /\ Conflict(f) /\ fs.files[f.name] = Edited
       /\ prev.files[g.name] = Absent /\ fs.files[g.name] = g.content
       /\ out.conflicts = <<f.name>>

----------------------------------------------------------------------------
(* The source metadata.                                                    *)

\* the entry file candidates of the instance, in the documented priority
EntryFiles ==
  LET parts == meta.modulename
      n == Len(parts)
      base == meta.source_directory \o SubSeq(parts, 1, n - 1)
  IN << base \o <<DotPy[parts[n]]>>,
        base \o <<parts[n], "__version__.py">>,
        base \o <<parts[n], "__init__.py">> >>

Exists(path) == path \in DOMAIN tree /\ tree[path].exists

EntryFilesOf(pkg) ==
  LET parts == pkg.modulename
      n == Len(parts)
      base == pkg.directory \o pkg.source_directory \o SubSeq(parts, 1, n - 1)
  IN << base \o <<DotPy[parts[n]]>>,
        base \o <<parts[n], "__version__.py">>,
        base \o <<parts[n], "__init__.py">> >>

\* C8: filename is the first of <module>.py, <module>/__version__.py,
\* <module>/__init__.py that exists; if none exists it raises an error and
\* returns no path.
C8_FirstExisting ==
  (cmd.name = "metadata" /\ out.pc = "filename") =>
    IF \A k \in 1..3 : ~ Exists(EntryFiles[k])
    THEN out.exc.type = "ValueError" /\ out.value = None
    ELSE /\ out.exc = NoExc
         /\ \E k \in 1..3 :
              /\ out.value = Str(EntryFiles[k])
              /\ Exists(EntryFiles[k])
              /\ \A j \in 1..(k - 1) : ~ Exists(EntryFiles[j])

C8_Witness ==
  /\ cmd.name = "metadata" /\ out.pc = "filename"
  /\ Len(meta.modulename) = 2
  /\ ~ Exists(EntryFiles[1]) /\ Exists(EntryFiles[2]) /\ Exists(EntryFiles[3])
  /\ out.value = Str(EntryFiles[2])

Sentinel == Str(<<"<Non-literal expression>">>)

\* what the extractor must find for a member of the entry file
Extracted(node) ==
  CASE node.t = "absent"     -> None
    [] node.t = "literal"    -> Str(node.v)
    [] node.t = "nonliteral" -> Sentinel

\* C9: a right-hand side of __version__ or __author__ that is no literal
\* gives the sentinel for that field; extraction does not fail and the
\* other field has its own value.
C9_NonLiteralSentinel ==
  (cmd.name = "metadata" /\ out.pc \in {"author", "version"}
     /\ \E k \in 1..3 : Exists(EntryFiles[k])) =>
    LET entry == tree[meta._filename.v] IN
    /\ out.exc = NoExc
    /\ meta._version = Extracted(entry.version)
    /\ meta._author = Extracted(entry.author)
    /\ out.value = IF out.pc = "author" THEN meta._author ELSE meta._version

C9_Witness ==
  /\ cmd.name = "metadata" /\ out.pc = "version" /\ out.exc = NoExc
  /\ Truthy(meta._filename)
  /\ tree[meta._filename.v].version = NonLiteral
  /\ tree[meta._filename.v].author = Literal(<<"bob">>)
  /\ out.value = Sentinel /\ meta._author = Str(<<"bob">>)

----------------------------------------------------------------------------
(* The consistency checks.                                                 *)

Mismatches(field) ==
  {i \in DOMAIN out.warnings :
     out.warnings[i].kind = "Inconsistent" /\ out.warnings[i].field = field}

\* C10: for author and for version there is exactly one mismatch warning if
\* the declared value (the author as a string) differs from the value found
\* in the entry file, and none if they agree; the version warning holds
\* both versions.
C10_Consistency ==
  (cmd.name = "check" /\ out.pc = "done" /\ out.exc = NoExc) =>
    LET entry == tree[CHOOSE q \in Range(EntryFilesOf(package)) :
                        /\ Exists(q)
                        /\ \A k \in 1..3 :
                             Exists(EntryFilesOf(package)[k]) =>
                               \E j \in 1..k : EntryFilesOf(package)[j] = q]
        found_author == Extracted(entry.author)
        found_version == Extracted(entry.version)
        declared_author ==
          IF package.package.author = None THEN Str(<<"None">>)
          ELSE Str(<<package.package.author.v[1], " <",
                     package.package.author.v[2], ">">>)
    IN /\ Cardinality(Mismatches("author")) =
            (IF found_author # declared_author THEN 1 ELSE 0)
       /\ Cardinality(Mismatches("version")) =
            (IF found_version # package.package.version THEN 1 ELSE 0)
       /\ \A i \in Mismatches("version") :
            /\ out.warnings[i].found = found_version
            /\ out.warnings[i].declared = package.package.version

C10_Witness ==
  /\ cmd.name = "check" /\ out.pc = "done" /\ out.exc = NoExc
  /\ package.package.version = Str(<<"1.0.0">>)
  /\ package.package.author = Author("alice", "a@x")
  /\ Len(out.warnings) = 1
  /\ out.warnings[1] = Inconsistent("version", Str(<<"1.0.1">>), Str(<<"1.0.0">>))

----------------------------------------------------------------------------
(* The warnings for missing fields.                                        *)

MissingWarnings(field) ==
  {i \in DOMAIN out.warnings :
     out.warnings[i].kind = "missing" /\ out.warnings[i].field = field}

Checked == cmd.name = "check" /\ out.pc = "done"

\* the outcome of the comparison with the sources
SourcesAgree ==
  out.exc = NoExc /\ Mismatches("author") = {} /\ Mismatches("version") = {}
SourcesDiffer ==
  out.exc = NoExc /\ (Mismatches("author") # {} \/ Mismatches("version") # {})
SourcesUnreadable == out.exc # NoExc

\* C11: whatever the comparison with the sources gives (agreement, a
\* mismatch, or no entry file to extract from), the warnings hold exactly
\* one `missing` warning for each of author, license and url that the
\* package section does not set (None or empty) and none for a field it
\* sets, and the missing warnings stand before the mismatch warnings.
C11_MissingRegardless ==
  Checked =>
    /\ SourcesAgree \/ SourcesDiffer \/ SourcesUnreadable
    /\ \A field \in {"author", "license", "url"} :
         Cardinality(MissingWarnings(field)) =
           (IF Truthy(package.package[field]) THEN 0 ELSE 1)
    /\ \A i, j \in DOMAIN out.warnings :
         (out.warnings[i].kind = "missing" /\ out.warnings[j].kind = "Inconsistent")
           => i < j

C11_Witness ==
  /\ Checked /\ SourcesUnreadable
  /\ package.package.author = None /\ package.package.license = Str(<<>>)
  /\ Truthy(package.package.url)
  /\ out.warnings = <<Missing("author"), Missing("license")>>

----------------------------------------------------------------------------
(* Repeated resolution.                                                    *)

----------------------------------------------------------------------------
(* Caching of the extracted metadata.                                      *)

\* C13: over the accesses to author and version of one instance the entry
\* file is parsed at most once, whichever of __author__ and __version__ it
\* defines, and every access that succeeds returns the value found in the
\* entry file.
C13_ParsedAtMostOnce ==
  cmd.name = "metadata" =>
    /\ out.loads <= 1
    /\ (out.pc \in {"author", "version"} /\ out.exc = NoExc) =>
         out.value = Extracted(IF out.pc = "author"
                               THEN tree[meta._filename.v].author
                               ELSE tree[meta._filename.v].version)

----------------------------------------------------------------------------
(* Enumerating files and writing them.                                     *)

ProducesFiles == cmd.name \in {"render", "new"}

\* every file the command is to produce
AllFiles ==
  IF cmd.name = "render"
  THEN get_files_to_render(PluginContext(project.monorepo, package, cmd.has_package,
                                         project.packages, cmd.recursive))
  ELSE NewFiles(cmd.args_name, cmd.directory)

\* the files handed to the writer so far
HandedOver ==
  IF cmd.name = "render" /\ cmd.dry THEN {}
  ELSE {AllFiles[k] : k \in 1..(out.enumerated - Len(out.pending))}

\* the filesystem in which exactly the files handed to the writer are
\* written, those excepted that existed with other content
AfterWriting(files) ==
  LET Kept(f) == before.files[f.name] \notin {Absent, f.content}
      written == {f \in files : ~ Kept(f)}
  IN [dirs |-> before.dirs \cup UNION {Ancestors(f.name) : f \in written},
      files |-> [q \in DOMAIN before.files |->
                   IF \E f \in written : f.name = q
                   THEN (CHOOSE f \in written : f.name = q).content
                   ELSE before.files[q]]]

\* C14 as stated: in every command that produces files, all files are
\* enumerated before the first one is written.
C14_EnumeratedBeforeWritten ==
  (ProducesFiles /\ fs # before) => out.enumerated = Len(AllFiles)

\* C14 (amended): enumerating a file writes nothing: the filesystem differs
\* from the initial one by the files handed to the writer and by nothing
\* else.  `render` has listed every file before it writes the first; `new`
\* writes each file as soon as its generator has yielded it, before the
\* next file is enumerated.
C14_EnumerationWritesNothing ==
  ProducesFiles =>
    /\ fs = AfterWriting(HandedOver)
    /\ cmd.name = "render" =>
         \/ out.pc = "start" /\ out.enumerated = 0 /\ fs = before
         \/ out.pc # "start" /\ out.enumerated = Len(AllFiles)
    /\ cmd.name = "new" =>
         /\ Len(out.pending) <= 1
         /\ out.enumerated <= Len(AllFiles)

C14_Witness ==
  /\ cmd.name = "new" /\ Len(AllFiles) = 3
  /\ out.enumerated = 2 /\ Len(out.pending) = 1
  /\ fs # before /\ fs = AfterWriting({AllFiles[1]})
  /\ before.files[AllFiles[2].name] = Absent

C14_WitnessRender ==
  /\ cmd.name = "render" /\ ~ cmd.dry /\ out.pc = "loop"
  /\ out.enumerated = 3 /\ Len(out.pending) = 3 /\ fs = before
  /\ \E k \in 1..3 : before.files[AllFiles[k].name] = Absent

----------------------------------------------------------------------------
(* The README and LICENSE files.                                           *)

Located == cmd.name = "files" /\ out.pc \in {"readme", "license"} /\ out.exc = NoExc

PackageDirectory == dirname(package.filename)

\* the names in the package directory
Listed ==
  {n \in Names : fs.files[PackageDirectory \o <<n>>] # Absent}

PreferredNames ==
  IF out.pc = "readme" THEN {"README.md", "README.rst", "README.txt", "README"}
  ELSE {"LICENSE", "LICENSE.txt", "LICENSE.rst", "LICENSE.md"}

\* the names that begin with `README.` resp. `LICENSE.`
PrefixNames ==
  IF out.pc = "readme" THEN {"README.adoc", "README.md", "README.rst"}
  ELSE {"LICENSE.apache", "LICENSE.md", "LICENSE.txt"}

\* names in the order of a sorted listing
SortedNames ==
  <<"LICENSE", "LICENSE.apache", "LICENSE.md", "LICENSE.txt",
    "README", "README.adoc", "README.md", "README.rst", "package.yaml">>

\* the name of `among` that a sorted listing shows first
FirstListed(among) ==
  SortedNames[CHOOSE i \in DOMAIN SortedNames :
                /\ SortedNames[i] \in among
                /\ \A j \in 1..(i - 1) : SortedNames[j] \notin among]

\* the last component of the returned path
ReturnedName == out.value.v[Len(out.value.v)]

\* C15: if the directory holds names of the preferred list, the result
\* names the one of them that comes first in the sorted listing, whatever
\* its rank in the preferred list and whatever names with the prefix come
\* before it; if it holds none, the result names the first name in sorted
\* order that starts with the prefix; if it holds none of these either,
\* the result is None.
C15_FirstPreferredInListingOrder ==
  Located =>
    IF Listed \cap PreferredNames # {}
    THEN out.value # None /\ ReturnedName = FirstListed(Listed \cap PreferredNames)
    ELSE IF Listed \cap PrefixNames # {}
    THEN out.value # None /\ ReturnedName = FirstListed(Listed \cap PrefixNames)
    ELSE out.value = None

C15_Witness ==
  /\ Located /\ out.pc = "readme"
  /\ {"README", "README.adoc", "README.md"} \subseteq Listed
  /\ ReturnedName = "README"

C15_WitnessPrefix ==
  /\ Located /\ out.pc = "license"
  /\ Listed \cap PreferredNames = {} /\ "LICENSE.apache" \in Listed
  /\ ReturnedName = "LICENSE.apache"

\* C16: get_readme and get_license return None or the absolute path of a
\* file in the package's directory, for a configured README, for a
\* preferred name and for a name found by its prefix.
C16_AbsolutePathInDirectory ==
  (cmd.name = "files" /\ out.pc \in {"readme", "license"}) =>
    /\ out.exc = NoExc
    /\ \/ out.value = None
       \/ /\ isabs(out.value.v)
          /\ dirname(out.value.v) = PackageDirectory
          /\ ReturnedName \in Listed
====
